---- MODULE Spec2Model ----
(***************************************************************************)
(* Apartment tracker: the listing store (scraper.py: init_database,        *)
(* get_seen_listing_urls, save_listings) and the scrape cycle              *)
(* (scrape_apartments) that feeds it and dispatches notifications.         *)
(*                                                                         *)
(* Text values are TLA+ strings.  Python None and SQL NULL are the         *)
(* distinguished value None, which is no text the extractor produces.      *)
(* datetime.now() is the counter clock, which advances with every cycle.   *)
(*                                                                         *)
(* The scheduler (main.py: is_quiet_hours, get_next_interval,              *)
(* run_scraper_with_scheduling, run_scheduler) reads the wall clock as     *)
(* hour and minute.  Intervals are kept in seconds, so that the half       *)
(* minutes of config.py are integers.                                      *)
(***************************************************************************)
EXTENDS Integers, Sequences, FiniteSets, TLC

VARIABLES
    pc,                  \* position of the process
    columns,             \* columns of table listings ({} = table absent)
    rows,                \* rows of table listings, in id order
    clock,               \* datetime.now()
    cycle,               \* number of scrape cycles started
    listings,            \* scrape_apartments: result of extract_listings
    new_listings,        \* scrape_apartments: result of save_listings
    idx,                 \* scrape_apartments: position of the notification loop
    new_listings_count,  \* value returned by the last scrape_apartments
    raised,              \* the last save_listings call left by an exception
    prev_listings,       \* history: batch of the preceding save_listings call
                         \* that returned (<<>> when it raised or never ran)
    outbox,              \* notifications dispatched so far
    failed,              \* identities a dispatch returned failure for
    caught,              \* history: the cycles scrape_apartments left through
                         \* except Exception
    config,              \* the settings of config.py
    hour,                \* datetime.now().hour at the tick
    minute,              \* datetime.now().minute at the tick
    next_interval        \* run_scheduler: next_interval, in seconds

vars == <<pc, columns, rows, clock, cycle, listings, new_listings, idx,
          new_listings_count, raised, prev_listings, outbox, failed, caught,
          config, hour,
          minute, next_interval>>

\* the state of the store and of the scrape cycle
cycleVars == <<columns, rows, clock, cycle, listings, new_listings, idx,
               new_listings_count, raised, prev_listings, outbox, failed, caught>>

\* the state of the scheduler, pc apart
schedVars == <<config, hour, minute, next_interval>>

----------------------------------------------------------------------------
(* Bounds *)

MaxCycles == 2

MaxBatch == 2

\* random.uniform(a, b) is sampled at 2 * JitterSteps + 1 points of [a, b]
JitterSteps == 2

\* The longest batch handed to save_listings on its own
MaxIngestBatch == 3

----------------------------------------------------------------------------
(* Values *)

None == "<None>"

\* Python truthiness of an optional string: `if not url`
Truthy(v) == v # None /\ v # ""

\* raw_text[:100]
IdentityPrefixLen == 100

Min(a, b) == IF a < b THEN a ELSE b

Prefix(s, n) == SubSeq(s, 1, Min(Len(s), n))

RECURSIVE Repeat(_, _)
Repeat(s, n) == IF n = 0 THEN "" ELSE s \o Repeat(s, n - 1)

\* CREATE TABLE listings: the columns of the current schema
AllColumns ==
    {"id", "url", "title", "address", "price", "rooms", "area", "extra_costs",
     "wbs", "image_url", "raw_text", "first_seen", "last_seen", "notified"}

\* The columns init_database adds to a table of an earlier schema
AddedColumns == {"extra_costs", "wbs", "image_url"}

OldColumns == AllColumns \ AddedColumns

\* The columns the INSERT of save_listings names
InsertColumns ==
    {"url", "title", "address", "price", "rooms", "area", "extra_costs",
     "wbs", "image_url", "raw_text", "first_seen", "last_seen"}

----------------------------------------------------------------------------
(* Listings as extract_listings builds them: url is None or a non-empty    *)
(* deeplink; a listing without url is kept only with an address of more    *)
(* than 5 characters, which is parsed from the button text (raw_text).     *)

ListingA ==
    [url |-> "https://x/1", title |-> "Astr. 1, Berlin", address |-> "Astr. 1, Berlin",
     price |-> "500,00", rooms |-> "2", area |-> "50,00", extra_costs |-> "100",
     wbs |-> "nein", image_url |-> "https://img/1",
     raw_text |-> "2 Zimmer, 50,00 m2, 500,00 | Astr. 1, Berlin"]

\* the same detail page seen again with other attribute values
ListingA2 ==
    [url |-> "https://x/1", title |-> "Astr. 1, Berlin", address |-> "Astr. 1, Berlin",
     price |-> "550,00", rooms |-> "2", area |-> "50,00", extra_costs |-> "120",
     wbs |-> "ja", image_url |-> "",
     raw_text |-> "2 Zimmer, 50,00 m2, 550,00 | Astr. 1, Berlin"]

ListingB ==
    [url |-> "https://x/2", title |-> "Bweg 2, Berlin", address |-> "Bweg 2, Berlin",
     price |-> "700,00", rooms |-> "3", area |-> "70,00", extra_costs |-> "",
     wbs |-> "", image_url |-> "",
     raw_text |-> "3 Zimmer, 70,00 m2, 700,00 | Bweg 2, Berlin"]

\* no deeplink found: url stays None; the raw text is longer than the prefix
ListingN ==
    [url |-> None, title |-> "Nplatz 3, Berlin", address |-> "Nplatz 3, Berlin",
     price |-> "600,00", rooms |-> "1", area |-> "40,00", extra_costs |-> "",
     wbs |-> "", image_url |-> "",
     raw_text |-> "1 Zimmer, 40,00 m2, 600,00 | Nplatz 3, Berlin " \o Repeat("n", 60)]

ListingPool == <<ListingA, ListingA2, ListingB, ListingN>>

\* The pages extract_listings can return: up to MaxBatch buttons of the page,
\* in any order, no button twice (two buttons may carry the same deeplink).
RECURSIVE SeqsUpTo(_)
SeqsUpTo(n) ==
    IF n = 0 THEN {<<>>}
    ELSE LET shorter == SeqsUpTo(n - 1)
         IN  shorter \cup
             {Append(s, k) : s \in {t \in shorter : Len(t) = n - 1},
                             k \in 1..Len(ListingPool)}

Injective(s) == \A i, j \in 1..Len(s) : i # j => s[i] # s[j]

Pages ==
    {[i \in 1..Len(s) |-> ListingPool[s[i]]] :
        s \in {t \in SeqsUpTo(MaxBatch) : Injective(t)}}

----------------------------------------------------------------------------
(* The listing store *)

\* init_database: CREATE TABLE IF NOT EXISTS, then three ALTER TABLE ADD COLUMN
\* whose failure (column already there) is swallowed.
InitColumns(cols) == IF cols = {} THEN AllColumns ELSE cols \cup AddedColumns

\* Mutant: the table is dropped and created anew when it exists
InitRowsRecreated(cols, rs) == <<>>

\* ADD COLUMN gives every existing row NULL in the new column
InitRows(cols, rs) ==
    [i \in 1..Len(rs) |->
        [c \in InitColumns(cols) |-> IF c \in cols THEN rs[i][c] ELSE None]]

\* Mutant: SELECT url FROM listings, without the WHERE clause
get_seen_listing_urls_unfiltered(rs) == {rs[i].url : i \in 1..Len(rs)}

\* SELECT url FROM listings WHERE url IS NOT NULL
get_seen_listing_urls(rs) == {rs[i].url : i \in 1..Len(rs)} \ {None}

\* url = listing.get("url", ""); if not url: url = raw_text[:100]
Identity(listing) ==
    IF Truthy(listing.url) THEN listing.url
    ELSE Prefix(listing.raw_text, IdentityPrefixLen)

\* Mutant: INSERT without last_seen, which is left at the start of time
InsertedRowWithoutLastSeen(cols, id, listing, now) ==
    [c \in cols |->
        CASE c = "id" -> id
          [] c = "first_seen" -> now
          [] c = "last_seen" -> 0
          [] c = "notified" -> 0
          [] OTHER -> listing[c]]

\* The row of INSERT INTO listings (...): the url column takes listing.get("url");
\* id is AUTOINCREMENT, notified takes its DEFAULT 0.
InsertedRow(cols, id, listing, now) ==
    [c \in cols |->
        CASE c = "id" -> id
          [] c = "first_seen" -> now
          [] c = "last_seen" -> now
          [] c = "notified" -> 0
          [] OTHER -> listing[c]]

\* Mutant: a table whose url column is not UNIQUE
InsertFailsOnColumnsOnly(cols, rs, listing) == ~(InsertColumns \subseteq cols)

\* The INSERT fails on a column the table lacks and on url TEXT UNIQUE
\* (NULLs are distinct from each other under UNIQUE).
InsertFails(cols, rs, listing) ==
    \/ ~(InsertColumns \subseteq cols)
    \/ /\ listing.url # None
       /\ \E i \in 1..Len(rs) : rs[i].url = listing.url

\* Mutant: UPDATE listings SET first_seen = ?, last_seen = ? WHERE url = ?
UpdateBothSeen(rs, url, now) ==
    [i \in 1..Len(rs) |->
        IF rs[i].url # None /\ rs[i].url = url
        THEN [rs[i] EXCEPT !["first_seen"] = now, !["last_seen"] = now]
        ELSE rs[i]]

\* UPDATE listings SET last_seen = ? WHERE url = ?
UpdateLastSeen(rs, url, now) ==
    [i \in 1..Len(rs) |->
        IF rs[i].url # None /\ rs[i].url = url
        THEN [rs[i] EXCEPT !["last_seen"] = now]
        ELSE rs[i]]

\* The loop of save_listings over the batch, on the open transaction.
RECURSIVE SaveLoop(_, _, _, _, _)
SaveLoop(cols, st, seen_urls, ls, now) ==
    IF ls = <<>> THEN st
    ELSE LET listing == Head(ls)
             url == Identity(listing)
         IN  IF url \notin seen_urls
             THEN IF InsertFails(cols, st.rows, listing)
                  THEN [st EXCEPT !.raised = TRUE]
                  ELSE SaveLoop(cols,
                                [st EXCEPT
                                   !.rows = Append(@, InsertedRow(cols, Len(@) + 1,
                                                                  listing, now)),
                                   !.new = Append(@, listing)],
                                seen_urls, Tail(ls), now)
             ELSE SaveLoop(cols,
                           [st EXCEPT !.rows = UpdateLastSeen(@, url, now)],
                           seen_urls, Tail(ls), now)

\* The identities of a batch, and of the records a table holds
BatchIdentities(ls) == {Identity(ls[i]) : i \in 1..Len(ls)}

StoredIdentities(rs) == {Identity(rs[i]) : i \in 1..Len(rs)}

\* Mutant: the table is synchronised with the page, rows of listings that are
\* no longer on it are deleted
save_listings_purging(cols, rs, ls, now) ==
    LET st == SaveLoop(cols, [rows |-> rs, new |-> <<>>, raised |-> FALSE],
                       get_seen_listing_urls(rs), ls, now)
    IN  IF st.raised
        THEN [rows |-> rs, new |-> <<>>, raised |-> TRUE]
        ELSE [st EXCEPT !.rows = SelectSeq(@, LAMBDA r :
                                              Identity(r) \in BatchIdentities(ls))]

\* Mutant: the new listings are returned before the commit, which is left
\* to the caller
save_listings_uncommitted(cols, rs, ls, now) ==
    LET st == SaveLoop(cols, [rows |-> rs, new |-> <<>>, raised |-> FALSE],
                       get_seen_listing_urls(rs), ls, now)
    IN  IF st.raised
        THEN [rows |-> rs, new |-> <<>>, raised |-> TRUE]
        ELSE [st EXCEPT !.rows = rs]

\* Mutant: every statement is committed as it is executed, so a failing
\* statement leaves the writes made before it
save_listings_partial(cols, rs, ls, now) ==
    LET st == SaveLoop(cols, [rows |-> rs, new |-> <<>>, raised |-> FALSE],
                       get_seen_listing_urls(rs), ls, now)
    IN  IF st.raised
        THEN [rows |-> st.rows, new |-> <<>>, raised |-> TRUE]
        ELSE st

\* save_listings: seen_urls is read once, the loop runs, conn.commit() makes
\* the writes durable.  An exception leaves the loop before the commit, so the
\* transaction is rolled back when the connection is dropped.
save_listings(cols, rs, ls, now) ==
    LET st == SaveLoop(cols, [rows |-> rs, new |-> <<>>, raised |-> FALSE],
                       get_seen_listing_urls(rs), ls, now)
    IN  IF st.raised
        THEN [rows |-> rs, new |-> <<>>, raised |-> TRUE]
        ELSE st

----------------------------------------------------------------------------
(* The scheduler *)

\* wait_seconds = next_interval * 60
SecondsPerMinute == 60

\* (hours_until_end * 60)
MinutesPerHour == 60

\* sleep_chunk = 60  # Check every minute
sleep_chunk == 60

\* (24 - current_hour)
HoursPerDay == 24

\* max(1, ...): at least 1 minute
MinIntervalMinutes == 1

\* - current_minute + 5
ResumeBufferMinutes == 5

Max(a, b) == IF a > b THEN a ELSE b

\* config.py as shipped; the interval settings are in seconds
DefaultConfig ==
    [QUIET_HOURS_ENABLED |-> TRUE,
     QUIET_HOURS_START |-> 21,
     QUIET_HOURS_END |-> 8,
     SCRAPE_INTERVAL_MINUTES |-> 5 * SecondsPerMinute,
     SCRAPE_INTERVAL_RANDOM_MINUTES |-> 3 * SecondsPerMinute,
     SCRAPE_INTERVAL_NEW_LISTINGS_MINUTES |-> 1 * SecondsPerMinute,
     SCRAPE_INTERVAL_NEW_LISTINGS_RANDOM_MINUTES |-> SecondsPerMinute \div 2]

\* is_quiet_hours without the case of a window that spans midnight
is_quiet_hours_no_span(cfg, current_hour) ==
    /\ cfg.QUIET_HOURS_ENABLED
    /\ cfg.QUIET_HOURS_START <= current_hour
    /\ current_hour < cfg.QUIET_HOURS_END

\* is_quiet_hours with the end hour taken into a window that spans midnight
is_quiet_hours_end_inclusive(cfg, current_hour) ==
    /\ cfg.QUIET_HOURS_ENABLED
    /\ IF cfg.QUIET_HOURS_START > cfg.QUIET_HOURS_END
       THEN current_hour >= cfg.QUIET_HOURS_START \/ current_hour <= cfg.QUIET_HOURS_END
       ELSE cfg.QUIET_HOURS_START <= current_hour /\ current_hour < cfg.QUIET_HOURS_END

\* is_quiet_hours taking a window whose start is its end for one that
\* spans midnight
is_quiet_hours_wrap_on_equal(cfg, current_hour) ==
    /\ cfg.QUIET_HOURS_ENABLED
    /\ IF cfg.QUIET_HOURS_START >= cfg.QUIET_HOURS_END
       THEN current_hour >= cfg.QUIET_HOURS_START \/ current_hour < cfg.QUIET_HOURS_END
       ELSE cfg.QUIET_HOURS_START <= current_hour /\ current_hour < cfg.QUIET_HOURS_END

\* is_quiet_hours(), with current_hour = datetime.now().hour
is_quiet_hours(cfg, current_hour) ==
    IF ~cfg.QUIET_HOURS_ENABLED THEN FALSE
    ELSE LET start_hour == cfg.QUIET_HOURS_START
             end_hour == cfg.QUIET_HOURS_END
         IN  IF start_hour > end_hour
             THEN current_hour >= start_hour \/ current_hour < end_hour
             ELSE start_hour <= current_hour /\ current_hour < end_hour

\* random.uniform(a, b): the values it can return, sampled from a to b
random_uniform(a, b) ==
    {a + (k * (b - a)) \div (2 * JitterSteps) : k \in 0..(2 * JitterSteps)}

\* get_next_interval with the two pairs taken for each other
get_next_interval_swapped(cfg, new_listings_found) ==
    IF new_listings_found
    THEN {Max(MinIntervalMinutes * SecondsPerMinute, cfg.SCRAPE_INTERVAL_MINUTES + v) :
             v \in random_uniform(-cfg.SCRAPE_INTERVAL_RANDOM_MINUTES,
                                  cfg.SCRAPE_INTERVAL_RANDOM_MINUTES)}
    ELSE {Max(MinIntervalMinutes * SecondsPerMinute,
              cfg.SCRAPE_INTERVAL_NEW_LISTINGS_MINUTES + v) :
             v \in random_uniform(-cfg.SCRAPE_INTERVAL_NEW_LISTINGS_RANDOM_MINUTES,
                                  cfg.SCRAPE_INTERVAL_NEW_LISTINGS_RANDOM_MINUTES)}

\* get_next_interval with the jitter of the pair that was not selected
get_next_interval_other_jitter(cfg, new_listings_found) ==
    IF new_listings_found
    THEN {Max(MinIntervalMinutes * SecondsPerMinute,
              cfg.SCRAPE_INTERVAL_NEW_LISTINGS_MINUTES + v) :
             v \in random_uniform(-cfg.SCRAPE_INTERVAL_RANDOM_MINUTES,
                                  cfg.SCRAPE_INTERVAL_RANDOM_MINUTES)}
    ELSE {Max(MinIntervalMinutes * SecondsPerMinute,
              cfg.SCRAPE_INTERVAL_MINUTES + v) :
             v \in random_uniform(-cfg.SCRAPE_INTERVAL_NEW_LISTINGS_RANDOM_MINUTES,
                                  cfg.SCRAPE_INTERVAL_NEW_LISTINGS_RANDOM_MINUTES)}

\* get_next_interval without the floor of one minute
get_next_interval_unfloored(cfg, new_listings_found) ==
    IF new_listings_found
    THEN {cfg.SCRAPE_INTERVAL_NEW_LISTINGS_MINUTES + v :
             v \in random_uniform(-cfg.SCRAPE_INTERVAL_NEW_LISTINGS_RANDOM_MINUTES,
                                  cfg.SCRAPE_INTERVAL_NEW_LISTINGS_RANDOM_MINUTES)}
    ELSE {cfg.SCRAPE_INTERVAL_MINUTES + v :
             v \in random_uniform(-cfg.SCRAPE_INTERVAL_RANDOM_MINUTES,
                                  cfg.SCRAPE_INTERVAL_RANDOM_MINUTES)}

\* get_next_interval(new_listings_found): the values it can return
get_next_interval(cfg, new_listings_found) ==
    LET base == IF new_listings_found
                THEN cfg.SCRAPE_INTERVAL_NEW_LISTINGS_MINUTES
                ELSE cfg.SCRAPE_INTERVAL_MINUTES
        jitter == IF new_listings_found
                  THEN cfg.SCRAPE_INTERVAL_NEW_LISTINGS_RANDOM_MINUTES
                  ELSE cfg.SCRAPE_INTERVAL_RANDOM_MINUTES
    IN  {Max(MinIntervalMinutes * SecondsPerMinute, base + random_variation) :
            random_variation \in random_uniform(-jitter, jitter)}

\* The quiet branch counting the hours to the end hour of the same day only
quiet_hours_interval_same_day(cfg, current_hour, current_minute) ==
    Max(MinIntervalMinutes,
        ((cfg.QUIET_HOURS_END - current_hour) * MinutesPerHour)
            - current_minute + ResumeBufferMinutes) * SecondsPerMinute

\* The quiet branch without the buffer added to the minutes until the end
quiet_hours_interval_no_buffer(cfg, current_hour, current_minute) ==
    LET end_hour == cfg.QUIET_HOURS_END
        hours_until_end ==
            IF cfg.QUIET_HOURS_START > end_hour
            THEN IF current_hour >= cfg.QUIET_HOURS_START
                 THEN (HoursPerDay - current_hour) + end_hour
                 ELSE end_hour - current_hour
            ELSE IF current_hour < end_hour
                 THEN end_hour - current_hour
                 ELSE (HoursPerDay - current_hour) + end_hour
    IN  Max(MinIntervalMinutes, (hours_until_end * MinutesPerHour) - current_minute)
            * SecondsPerMinute

\* run_scraper_with_scheduling, quiet branch: the time until quiet hours end
quiet_hours_interval(cfg, current_hour, current_minute) ==
    LET end_hour == cfg.QUIET_HOURS_END
        hours_until_end ==
            IF cfg.QUIET_HOURS_START > end_hour
            THEN IF current_hour >= cfg.QUIET_HOURS_START
                 THEN (HoursPerDay - current_hour) + end_hour
                 ELSE end_hour - current_hour
            ELSE IF current_hour < end_hour
                 THEN end_hour - current_hour
                 ELSE (HoursPerDay - current_hour) + end_hour
        minutes_until_end ==
            (hours_until_end * MinutesPerHour) - current_minute + ResumeBufferMinutes
    IN  Max(MinIntervalMinutes, minutes_until_end) * SecondsPerMinute

\* scrape_apartments without its except clause: the exception leaves
\* run_scheduler and the process ends
scrape_apartments_reraise == [pc |-> "stopped", count |-> 0]

\* scrape_apartments: except Exception: return 0
scrape_apartments_except == [pc |-> "returned", count |-> 0]

\* The wall clock readings a tick of the full model is taken at
TickTimes == {<<7, 59>>, <<8, 0>>, <<21, 0>>, <<22, 10>>}

----------------------------------------------------------------------------
(* Initial states: no database file yet, or a database of the earlier      *)
(* schema (before extra_costs, wbs and image_url) holding one listing.     *)

OldRow ==
    [c \in OldColumns |->
        CASE c = "id" -> 1
          [] c = "first_seen" -> 0
          [] c = "last_seen" -> 0
          [] c = "notified" -> 0
          [] OTHER -> ListingA[c]]

Init ==
    /\ pc = "start"
    /\ \/ columns = {} /\ rows = <<>>
       \/ columns = OldColumns /\ rows = <<OldRow>>
    /\ clock = 0
    /\ cycle = 0
    /\ listings = <<>>
    /\ new_listings = <<>>
    /\ idx = 0
    /\ new_listings_count = 0
    /\ raised = FALSE
    /\ prev_listings = <<>>
    /\ outbox = <<>>
    /\ failed = {}
    /\ caught = {}
    /\ config = DefaultConfig
    /\ \E t \in TickTimes : hour = t[1] /\ minute = t[2]
    /\ next_interval = 0

----------------------------------------------------------------------------
(* Operations *)

\* init_database(), called at every start of the process
InitDatabase ==
    /\ pc \in {"start", "idle"}
    /\ columns' = InitColumns(columns)
    /\ rows' = InitRows(columns, rows)
    /\ pc' = "idle"
    /\ UNCHANGED <<clock, cycle, listings, new_listings, idx, new_listings_count,
                   raised, prev_listings, outbox, failed, caught>>
    /\ UNCHANGED schedVars

\* run_scraper_with_scheduling: the tick is outside quiet hours,
\* scrape_apartments() is entered
StartCycle ==
    /\ pc = "idle"
    /\ ~is_quiet_hours(config, hour)
    /\ cycle < MaxCycles
    /\ cycle' = cycle + 1
    /\ clock' = clock + 1
    /\ pc' = "scraping"
    /\ listings' = <<>>
    /\ new_listings' = <<>>
    /\ idx' = 0
    /\ UNCHANGED <<columns, rows, new_listings_count, raised, prev_listings, outbox, failed,
                   caught>>
    /\ UNCHANGED <<config, hour, minute, next_interval>>

\* open_search_filters or set_search_criteria fails (return 0), or a step
\* before save_listings raises (except: return 0)
ScrapeFails ==
    /\ pc = "scraping"
    /\ new_listings_count' = scrape_apartments_except.count
    /\ pc' = scrape_apartments_except.pc
    /\ caught' = caught \cup {cycle}
    /\ UNCHANGED <<columns, rows, clock, cycle, listings, new_listings, idx, raised,
                   prev_listings, outbox, failed>>
    /\ UNCHANGED schedVars

\* listings = extract_listings(driver)
\* scrape_apartments: open_search_filters or set_search_criteria returns
\* False: return 0 before anything is extracted
SearchFails ==
    /\ pc = "scraping"
    /\ new_listings_count' = 0
    /\ pc' = "returned"
    /\ UNCHANGED <<columns, rows, clock, cycle, listings, new_listings, idx, raised,
                   prev_listings, outbox, failed, caught>>
    /\ UNCHANGED schedVars

ExtractListings ==
    /\ pc = "scraping"
    /\ listings' \in Pages
    /\ pc' = "extracted"
    /\ UNCHANGED <<columns, rows, clock, cycle, new_listings, idx,
                   new_listings_count, raised, prev_listings, outbox, failed,
                   caught>>
    /\ UNCHANGED schedVars

\* if listings: ... else: "No listings extracted", return 0
\* Mutant: save_listings is called with the empty list after a pass that
\* marks every row as seen
NoListingsTouchesStore ==
    /\ pc = "extracted"
    /\ listings = <<>>
    /\ rows' = [i \in 1..Len(rows) |-> [rows[i] EXCEPT !["last_seen"] = clock]]
    /\ new_listings_count' = 0
    /\ pc' = "returned"
    /\ UNCHANGED <<columns, clock, cycle, listings, new_listings, idx, raised,
                   prev_listings, outbox, failed, caught>>
    /\ UNCHANGED schedVars

\* scrape_apartments: listings is empty, "No listings extracted"
NoListings ==
    /\ pc = "extracted"
    /\ listings = <<>>
    /\ new_listings_count' = 0
    /\ pc' = "returned"
    /\ UNCHANGED <<columns, rows, clock, cycle, listings, new_listings, idx, raised,
                   prev_listings, outbox, failed, caught>>
    /\ UNCHANGED schedVars

\* new_listings = save_listings(listings); an exception is caught by
\* scrape_apartments, which returns 0; no new listing: return 0
SaveListings ==
    /\ pc = "extracted"
    /\ listings # <<>>
    /\ LET r == save_listings(columns, rows, listings, clock)
       IN  /\ rows' = r.rows
           /\ new_listings' = r.new
           /\ raised' = r.raised
           /\ prev_listings' = IF r.raised THEN <<>> ELSE listings
           /\ caught' = IF r.raised THEN caught \cup {cycle} ELSE caught
           /\ IF r.raised
              THEN /\ pc' = scrape_apartments_except.pc
                   /\ new_listings_count' = scrape_apartments_except.count
              ELSE IF r.new = <<>>
              THEN /\ pc' = "returned"
                   /\ new_listings_count' = 0
              ELSE /\ pc' = "summary"
                   /\ UNCHANGED new_listings_count
    /\ UNCHANGED <<columns, clock, cycle, listings, idx, outbox, failed>>
    /\ UNCHANGED schedVars

\* send_system_notification(title, summary): the batch summary
SendSummary ==
    /\ pc = "summary"
    /\ outbox' = Append(outbox, [cycle |-> cycle, kind |-> "summary",
                                 listing |-> new_listings[1]])
    /\ idx' = 1
    /\ pc' = "notify"
    /\ UNCHANGED <<columns, rows, clock, cycle, listings, new_listings,
                   new_listings_count, raised, prev_listings, failed, caught>>
    /\ UNCHANGED schedVars

\* The notification loop walking new_listings from its end
DispatchReversed ==
    /\ pc = "notify"
    /\ idx <= Len(new_listings)
    /\ outbox' = Append(outbox, [cycle |-> cycle, kind |-> "listing",
                                 listing |-> new_listings[Len(new_listings) + 1 - idx]])
    /\ idx' = idx + 1
    /\ UNCHANGED <<pc, columns, rows, clock, cycle, listings, new_listings,
                   new_listings_count, raised, prev_listings, caught>>
    /\ UNCHANGED schedVars

\* for listing in new_listings: send_notification(message, ...)
Dispatch ==
    /\ pc = "notify"
    /\ idx <= Len(new_listings)
    /\ outbox' = Append(outbox, [cycle |-> cycle, kind |-> "listing",
                                 listing |-> new_listings[idx]])
    /\ idx' = idx + 1
    /\ UNCHANGED <<pc, columns, rows, clock, cycle, listings, new_listings,
                   new_listings_count, raised, prev_listings, caught>>
    /\ UNCHANGED schedVars

\* send_notification returns True or False; the loop drops what it returns
SendNotification == Dispatch /\ UNCHANGED failed

\* The same step, with the returned value kept on record
SendNotificationResult ==
    /\ Dispatch
    /\ \E ok \in BOOLEAN :
           failed' = IF ok THEN failed ELSE failed \cup {Identity(new_listings[idx])}

\* return new_listings_count
EndCycle ==
    /\ pc = "notify"
    /\ idx > Len(new_listings)
    /\ new_listings_count' = Len(new_listings)
    /\ pc' = "returned"
    /\ UNCHANGED <<columns, rows, clock, cycle, listings, new_listings, idx, raised,
                   prev_listings, outbox, failed, caught>>
    /\ UNCHANGED schedVars

\* What datetime.now() can read right after it read h:m: the same, or the
\* next hour when the hour turns between the two readings
LaterReadings(h, m) ==
    {<<h, m>>} \cup (IF m = MinutesPerHour - 1
                     THEN {<<(h + 1) % HoursPerDay, 0>>}
                     ELSE {})

\* run_scraper_with_scheduling: is_quiet_hours() finds the tick in quiet
\* hours; the scrape is skipped, now = datetime.now() is read again and the
\* time from now until quiet hours end is returned
QuietTick ==
    /\ pc = "idle"
    /\ is_quiet_hours(config, hour)
    /\ \E now \in LaterReadings(hour, minute) :
           /\ hour' = now[1]
           /\ minute' = now[2]
           /\ next_interval' = quiet_hours_interval(config, now[1], now[2])
    /\ pc' = "waiting"
    /\ UNCHANGED cycleVars
    /\ UNCHANGED config

\* run_scraper_with_scheduling: new_listings_found = new_listings_count > 0;
\* next_interval = get_next_interval(new_listings_found); return next_interval.
\* The locals of the tick end with it.
NextInterval ==
    /\ pc = "returned"
    /\ next_interval' \in get_next_interval(config, new_listings_count > 0)
    /\ pc' = "waiting"
    /\ listings' = <<>>
    /\ new_listings' = <<>>
    /\ idx' = 0
    /\ new_listings_count' = 0
    /\ UNCHANGED <<columns, rows, clock, cycle, raised, prev_listings, outbox, failed,
                   caught>>
    /\ UNCHANGED <<config, hour, minute>>

\* run_scheduler: the wait is over; the next tick reads the wall clock at
\* one of the tick times.  The interval is used up.
Wait ==
    /\ pc = "waiting"
    /\ \E t \in TickTimes : hour' = t[1] /\ minute' = t[2]
    /\ next_interval' = 0
    /\ pc' = "idle"
    /\ UNCHANGED cycleVars
    /\ UNCHANGED config

\* The wait going on after the pause with all that was left of it
remaining_after_break_stale(wait_seconds) == wait_seconds

\* run_scheduler: break leaves the chunks that are left; what is still slept
\* is remainder = wait_seconds % sleep_chunk
remaining_after_break(wait_seconds) == wait_seconds % sleep_chunk

\* run_scheduler: a one-minute check during the wait finds quiet hours; the
\* wait is paused.  Of the interval only the remainder is slept after it.
Pause ==
    /\ pc = "waiting"
    /\ \E t \in TickTimes : is_quiet_hours(config, t[1])
    /\ next_interval' = remaining_after_break(next_interval)
    /\ pc' = "paused"
    /\ UNCHANGED cycleVars
    /\ UNCHANGED <<config, hour, minute>>

\* run_scheduler: while is_quiet_hours(): time.sleep(60); a check finds quiet
\* hours over, the remainder is slept and the next tick is taken
Poll ==
    /\ pc = "paused"
    /\ \E t \in TickTimes :
           /\ ~is_quiet_hours(config, t[1])
           /\ hour' = t[1]
           /\ minute' = t[2]
    /\ next_interval' = 0
    /\ pc' = "idle"
    /\ UNCHANGED cycleVars
    /\ UNCHANGED config

\* Ctrl+C: KeyboardInterrupt is raised wherever the process is.  It is no
\* Exception, so scrape_apartments does not catch it; the process ends (in
\* except KeyboardInterrupt of run_scheduler, or uncaught in the first tick)
\* and with it the variables of the process; the store and what was
\* dispatched stay.
KeyboardInterrupt ==
    /\ pc \in {"idle", "scraping", "extracted", "summary", "notify", "returned",
               "waiting", "paused"}
    /\ pc' = "stopped"
    /\ listings' = <<>>
    /\ new_listings' = <<>>
    /\ idx' = 0
    /\ new_listings_count' = 0
    /\ next_interval' = 0
    /\ UNCHANGED <<columns, rows, clock, cycle, raised, prev_listings, outbox, failed,
                   caught>>
    /\ UNCHANGED <<config, hour, minute>>

Next ==
    \/ InitDatabase
    \/ StartCycle
    \/ ScrapeFails
    \/ SearchFails
    \/ ExtractListings
    \/ NoListings
    \/ SaveListings
    \/ SendSummary
    \/ SendNotification
    \/ EndCycle
    \/ QuietTick
    \/ NextInterval
    \/ Wait
    \/ Pause
    \/ Poll
    \/ KeyboardInterrupt

Spec == Init /\ [][Next]_vars

\* The program with the result of every dispatch on record
DispatchNext ==
    \/ InitDatabase
    \/ StartCycle
    \/ ScrapeFails
    \/ SearchFails
    \/ ExtractListings
    \/ NoListings
    \/ SaveListings
    \/ SendSummary
    \/ SendNotificationResult
    \/ EndCycle
    \/ QuietTick
    \/ NextInterval
    \/ Wait
    \/ Pause
    \/ Poll
    \/ KeyboardInterrupt

DispatchSpec == Init /\ [][DispatchNext]_vars

----------------------------------------------------------------------------
(* The scheduler alone, over the settings config.py can hold: a scrape cycle
   is the value scrape_apartments returns *)

\* The wall clock readings of the scheduler model
SchedTimes == {<<h, m>> : h \in 0..(HoursPerDay - 1), m \in {0, 10, 59}}

\* Every quiet window of whole hours; quiet hours switched off
QuietConfigs ==
    {[DefaultConfig EXCEPT !.QUIET_HOURS_START = s, !.QUIET_HOURS_END = e] :
        s \in 0..(HoursPerDay - 1), e \in 0..(HoursPerDay - 1)}
    \cup {[DefaultConfig EXCEPT !.QUIET_HOURS_ENABLED = FALSE,
                                !.QUIET_HOURS_START = w[1],
                                !.QUIET_HOURS_END = w[2]] :
             w \in {<<21, 8>>, <<8, 21>>}}

\* Base intervals (half a minute, 1 minute, 5 minutes) and jitters (none,
\* half a minute, 3 minutes), in seconds
Bases == {SecondsPerMinute \div 2, SecondsPerMinute, 5 * SecondsPerMinute}

Jitters == {0, SecondsPerMinute \div 2, 3 * SecondsPerMinute}

IntervalConfigs ==
    {[DefaultConfig EXCEPT !.SCRAPE_INTERVAL_MINUTES = b,
                           !.SCRAPE_INTERVAL_RANDOM_MINUTES = j,
                           !.SCRAPE_INTERVAL_NEW_LISTINGS_MINUTES = nb,
                           !.SCRAPE_INTERVAL_NEW_LISTINGS_RANDOM_MINUTES = nj] :
        b \in Bases, j \in Jitters, nb \in Bases, nj \in Jitters}

SchedConfigs == QuietConfigs \cup IntervalConfigs

SchedInit ==
    /\ pc = "idle"
    /\ columns = AllColumns
    /\ rows = <<>>
    /\ clock = 0
    /\ cycle = 0
    /\ listings = <<>>
    /\ new_listings = <<>>
    /\ idx = 0
    /\ new_listings_count = 0
    /\ raised = FALSE
    /\ prev_listings = <<>>
    /\ outbox = <<>>
    /\ failed = {}
    /\ caught = {}
    /\ config \in SchedConfigs
    /\ \E t \in SchedTimes : hour = t[1] /\ minute = t[2]
    /\ next_interval = 0

\* new_listings_count = scrape_apartments(), at a tick outside quiet hours
SchedScrape ==
    /\ pc = "idle"
    /\ ~is_quiet_hours(config, hour)
    /\ new_listings_count' \in 0..MaxBatch
    /\ pc' = "returned"
    /\ UNCHANGED <<columns, rows, clock, cycle, listings, new_listings, idx, raised,
                   prev_listings, outbox, failed, caught>>
    /\ UNCHANGED schedVars

SchedNext ==
    \/ SchedScrape
    \/ QuietTick
    \/ NextInterval
    \/ Wait
    \/ Pause
    \/ Poll

SchedSpec == SchedInit /\ [][SchedNext]_vars

----------------------------------------------------------------------------
(* The loop of run_scheduler minute by minute: the wall clock advances with
   every sleep, and next_interval is what is left of the wait *)

\* The wall clock one minute after h:m
MinuteAfter(h, m) ==
    IF m = MinutesPerHour - 1 THEN <<(h + 1) % HoursPerDay, 0>> ELSE <<h, m + 1>>

\* Quiet windows: over midnight, within a day, all day but one hour either
\* way, empty, switched off
LoopConfigs ==
    {[DefaultConfig EXCEPT !.QUIET_HOURS_START = w[1], !.QUIET_HOURS_END = w[2]] :
        w \in {<<21, 8>>, <<9, 17>>, <<0, 23>>, <<23, 22>>, <<8, 8>>}}
    \cup {[DefaultConfig EXCEPT !.QUIET_HOURS_ENABLED = FALSE]}

LoopInit ==
    /\ pc = "idle"
    /\ columns = AllColumns
    /\ rows = <<>>
    /\ clock = 0
    /\ cycle = 0
    /\ listings = <<>>
    /\ new_listings = <<>>
    /\ idx = 0
    /\ new_listings_count = 0
    /\ raised = FALSE
    /\ prev_listings = <<>>
    /\ outbox = <<>>
    /\ failed = {}
    /\ caught = {}
    /\ config \in LoopConfigs
    /\ \E t \in SchedTimes : hour = t[1] /\ minute = t[2]
    /\ next_interval = 0

\* for _ in range(chunks): time.sleep(sleep_chunk); if is_quiet_hours(): the
\* pause begins and break will leave the loop
LoopSleep ==
    /\ pc = "waiting"
    /\ next_interval >= sleep_chunk
    /\ LET t == MinuteAfter(hour, minute)
       IN  /\ hour' = t[1]
           /\ minute' = t[2]
           /\ IF is_quiet_hours(config, t[1])
              THEN /\ pc' = "paused"
                   /\ next_interval' = remaining_after_break(next_interval)
              ELSE /\ pc' = "waiting"
                   /\ next_interval' = next_interval - sleep_chunk
    /\ UNCHANGED cycleVars
    /\ UNCHANGED config

\* Mutant: while True: time.sleep(60)
LoopPollForever ==
    /\ pc = "paused"
    /\ LET t == MinuteAfter(hour, minute)
       IN  /\ hour' = t[1]
           /\ minute' = t[2]
           /\ pc' = "paused"
    /\ UNCHANGED cycleVars
    /\ UNCHANGED <<config, next_interval>>

\* while is_quiet_hours(): time.sleep(60)
LoopPoll ==
    /\ pc = "paused"
    /\ LET t == MinuteAfter(hour, minute)
       IN  /\ hour' = t[1]
           /\ minute' = t[2]
           /\ pc' = IF is_quiet_hours(config, t[1]) THEN "paused" ELSE "waiting"
    /\ UNCHANGED cycleVars
    /\ UNCHANGED <<config, next_interval>>

\* if remainder > 0: time.sleep(remainder); the next tick is taken.  A sleep
\* of less than a minute ends in the same minute or in the next.
LoopRemainder ==
    /\ pc = "waiting"
    /\ next_interval < sleep_chunk
    /\ \E t \in {<<hour, minute>>} \cup
                 (IF next_interval > 0 THEN {MinuteAfter(hour, minute)} ELSE {}) :
           /\ hour' = t[1]
           /\ minute' = t[2]
    /\ next_interval' = 0
    /\ pc' = "idle"
    /\ UNCHANGED cycleVars
    /\ UNCHANGED config

LoopNext ==
    \/ SchedScrape
    \/ QuietTick
    \/ NextInterval
    \/ LoopSleep
    \/ LoopPoll
    \/ LoopRemainder

LoopSpec == LoopInit /\ [][LoopNext]_vars

\* The loop with no KeyboardInterrupt and a clock that goes on: the process
\* is never suspended for ever, every sleep and every call returns
LiveSpec == LoopInit /\ [][LoopNext]_vars /\ WF_vars(LoopNext)

----------------------------------------------------------------------------
(* save_listings on its own: calls with batches of up to MaxIngestBatch
   listings on the store the calls before have left *)

IngestPages ==
    {[i \in 1..Len(s) |-> ListingPool[s[i]]] :
        s \in {t \in SeqsUpTo(MaxIngestBatch) : Injective(t)}}

IngestInit ==
    /\ pc = "idle"
    /\ columns = AllColumns
    /\ rows = <<>>
    /\ clock = 0
    /\ cycle = 0
    /\ listings = <<>>
    /\ new_listings = <<>>
    /\ idx = 0
    /\ new_listings_count = 0
    /\ raised = FALSE
    /\ prev_listings = <<>>
    /\ outbox = <<>>
    /\ failed = {}
    /\ caught = {}
    /\ config = DefaultConfig
    /\ hour = DefaultConfig.QUIET_HOURS_END
    /\ minute = 0
    /\ next_interval = 0

\* new_listings = save_listings(listings), at a later time than the call before
IngestCall ==
    /\ cycle < MaxCycles
    /\ cycle' = cycle + 1
    /\ clock' = clock + 1
    /\ \E ls \in IngestPages \ {<<>>} :
           LET r == save_listings(columns, rows, ls, clock + 1)
           IN  /\ listings' = ls
               /\ rows' = r.rows
               /\ new_listings' = r.new
               /\ raised' = r.raised
    /\ UNCHANGED <<pc, columns, idx, new_listings_count, prev_listings, outbox, failed,
                   caught>>
    /\ UNCHANGED schedVars

IngestNext == IngestCall

IngestSpec == IngestInit /\ [][IngestNext]_vars

----------------------------------------------------------------------------
TypeOK ==
    /\ pc \in {"start", "idle", "scraping", "extracted", "summary", "notify",
              "returned", "waiting", "paused", "stopped"}
    /\ columns \in {{}, OldColumns, AllColumns}
    /\ \A i \in 1..Len(rows) : DOMAIN rows[i] = columns /\ rows[i].id = i
    /\ cycle \in 0..MaxCycles
    /\ clock = cycle
    /\ listings \in Pages

----------------------------------------------------------------------------
(* Properties of the store and of the scrape cycle *)

\* The step in which scrape_apartments calls save_listings
IngestStep == pc = "extracted" /\ listings # <<>> /\ pc' \in {"summary", "returned"}

\* ... and save_listings returns
IngestReturns == IngestStep /\ ~raised'

\* The step in which init_database runs
InitStep == pc \in {"start", "idle"} /\ pc' = "idle"

\* C1: a notification is dispatched for a listing identity (its url, or its
\* raw-text prefix when it has no url) in at most one scrape cycle.
C1_NotifiedInOneCycleOnly ==
    \A m, n \in 1..Len(outbox) :
        (/\ outbox[m].kind = "listing"
         /\ outbox[n].kind = "listing"
         /\ Identity(outbox[m].listing) = Identity(outbox[n].listing))
        => outbox[m].cycle = outbox[n].cycle

\* C2: after a save_listings call that returns, get_seen_listing_urls()
\* contains the identity of every record of the batch.
C2_SeenCoversBatch ==
    [][IngestReturns => BatchIdentities(listings) \subseteq get_seen_listing_urls(rows')]_vars

\* C3: save_listings returns exactly the records of the batch whose identity
\* no stored record had before the call, in input order.
C3_ReturnsExactlyTheNew ==
    [][IngestReturns =>
         new_listings' = SelectSeq(listings, LAMBDA l :
                                      Identity(l) \notin StoredIdentities(rows))]_vars

\* C4: a save_listings call with the batch of the call before it returns no
\* new record, leaves first_seen of every record of the batch as it was and
\* sets its last_seen to the time of this call.
C4_SecondIngestIdempotent ==
    [][(IngestStep /\ prev_listings = listings) =>
         /\ ~raised'
         /\ new_listings' = <<>>
         /\ Len(rows') = Len(rows)
         /\ \A i \in 1..Len(rows) :
               Identity(rows[i]) \in BatchIdentities(listings) =>
                   /\ rows'[i].first_seen = rows[i].first_seen
                   /\ rows'[i].last_seen = clock]_vars

\* C5: no two rows of the store have the same listing identity.
C5_IdentityUnique ==
    \A i, j \in 1..Len(rows) :
        Identity(rows[i]) = Identity(rows[j]) => i = j

\* C6: a record without url is stored under the first 100 characters of its
\* raw text: after save_listings returns, get_seen_listing_urls() contains
\* that prefix and a row carries it as its url.
C6_FallbackIdentityStored ==
    [][IngestReturns =>
         \A k \in 1..Len(listings) :
             ~Truthy(listings[k].url) =>
                 /\ Prefix(listings[k].raw_text, IdentityPrefixLen)
                        \in get_seen_listing_urls(rows')
                 /\ \E i \in 1..Len(rows') :
                        rows'[i].url = Prefix(listings[k].raw_text, IdentityPrefixLen)]_vars

\* C7: a save_listings call changes nothing but last_seen in a row that was
\* stored before it, whatever attribute values the batch carries for that
\* identity; last_seen changes to the time of the call only; a row whose
\* identity is not in the batch is not changed at all.
C7_OnlyLastSeenChanges ==
    [][IngestStep =>
         /\ Len(rows') >= Len(rows)
         /\ \A i \in 1..Len(rows) :
               /\ \A c \in columns \ {"last_seen"} : rows'[i][c] = rows[i][c]
               /\ rows'[i].last_seen \in {rows[i].last_seen, clock}
               /\ Identity(rows[i]) \notin BatchIdentities(listings)
                     => rows'[i] = rows[i]]_vars

\* C7 witness: a stored url was seen again with other attribute values; its
\* row keeps the attributes and first_seen of insertion, last_seen is new.
C7_Witness ==
    /\ pc = "returned"
    /\ ~raised
    /\ \E k \in 1..Len(listings) : listings[k] = ListingA2
    /\ \E i \in 1..Len(rows) :
          /\ rows[i].url = ListingA2.url
          /\ rows[i].price = ListingA.price
          /\ rows[i].first_seen < clock
          /\ rows[i].last_seen = clock

\* C8: the store is append-only: no step of initialize, ingest or the scrape
\* cycle removes a row or replaces the record a row holds.
C8_AppendOnly ==
    [][/\ Len(rows') >= Len(rows)
       /\ \A i \in 1..Len(rows) :
             /\ rows'[i].id = rows[i].id
             /\ Identity(rows'[i]) = Identity(rows[i])]_vars

\* C8 witness: a listing stored by the first cycle is absent from the batch
\* the second cycle ingested, and is still stored.
C8_Witness ==
    /\ cycle = 2
    /\ pc = "returned"
    /\ ~raised
    /\ prev_listings # <<>>
    /\ prev_listings = listings
    /\ \E i \in 1..Len(rows) :
          /\ rows[i].first_seen = 1
          /\ rows[i].last_seen = 1
          /\ Identity(rows[i]) \notin BatchIdentities(listings)
    /\ \E i \in 1..Len(rows) : rows[i].last_seen = 2

\* C9: init_database keeps every row and every value of an existing store,
\* adds extra_costs, wbs and image_url to a store that lacks them, and a
\* second call changes nothing the first call left.
C9_InitPreservesAndIdempotent ==
    [][InitStep =>
         /\ columns \subseteq columns'
         /\ AddedColumns \subseteq columns'
         /\ Len(rows') = Len(rows)
         /\ \A i \in 1..Len(rows) : \A c \in columns : rows'[i][c] = rows[i][c]
         /\ InitColumns(columns') = columns'
         /\ InitRows(columns', rows') = rows']_vars

\* C9 witness: a store of the earlier schema was initialized: its row is kept
\* and the three columns were added.
C9_Witness ==
    /\ pc = "idle"
    /\ cycle = 0
    /\ columns = AllColumns
    /\ Len(rows) = 1
    /\ rows[1].url = ListingA.url
    /\ rows[1].raw_text = ListingA.raw_text
    /\ rows[1].extra_costs = None

\* C10: get_seen_listing_urls() never contains an empty string or a null.
C10_SeenNonEmpty ==
    /\ "" \notin get_seen_listing_urls(rows)
    /\ None \notin get_seen_listing_urls(rows)

\* C10 witness: the store holds a row without url next to rows with one.
C10_Witness ==
    /\ \E i \in 1..Len(rows) : rows[i].url = None
    /\ get_seen_listing_urls(rows) # {}

----------------------------------------------------------------------------
(* Properties of the scheduler *)

\* The quiet window as is_quiet_hours documents it: the hours from the start
\* hour up to, not including, the end hour, around the clock
InQuietWindow(cfg, h) ==
    /\ cfg.QUIET_HOURS_ENABLED
    /\ h \in {(cfg.QUIET_HOURS_START + k) % HoursPerDay :
                k \in 0..(((cfg.QUIET_HOURS_END - cfg.QUIET_HOURS_START) % HoursPerDay) - 1)}

\* The step in which a tick of the scheduler is taken
TickStep == pc = "idle" /\ pc' \in {"scraping", "waiting"}

\* C11: with quiet hours enabled, for every start hour, end hour and hour of
\* 0..23 the quiet test is true iff (h >= start or h < end) when start > end
\* and iff start <= h < end otherwise; for 21 to 8 it is true exactly at
\* 21, 22, 23, 0..7; with quiet hours disabled it is false at every hour, no
\* tick is skipped and no wait is paused.
C11_QuietWindow ==
    [][LET start_hour == config.QUIET_HOURS_START
           end_hour == config.QUIET_HOURS_END
           is_quiet == is_quiet_hours(config, hour)
       IN  /\ config.QUIET_HOURS_ENABLED =>
                  (is_quiet <=> IF start_hour > end_hour
                                THEN hour >= start_hour \/ hour < end_hour
                                ELSE start_hour <= hour /\ hour < end_hour)
           /\ (config.QUIET_HOURS_ENABLED /\ start_hour = 21 /\ end_hour = 8) =>
                  (is_quiet <=> hour \in {21, 22, 23} \cup 0..7)
           /\ ~config.QUIET_HOURS_ENABLED =>
                  /\ ~is_quiet
                  /\ ~(pc = "idle" /\ pc' = "waiting")
                  /\ pc' # "paused"]_vars

\* C11 witness: under the window from 21 to 8 a tick at 8 o'clock, the end
\* hour, was not skipped: scrape_apartments ran and returned.
C11_Witness ==
    /\ config.QUIET_HOURS_ENABLED
    /\ config.QUIET_HOURS_START = 21
    /\ config.QUIET_HOURS_END = 8
    /\ hour = 8
    /\ pc = "returned"

\* C12: a scrape cycle starts only at a tick outside quiet hours; a tick in
\* quiet hours, at startup or after a wait, extracts nothing, ingests
\* nothing, notifies nothing, leaves the store as it is and returns the
\* quiet-hours resume interval.
C12_QuietTickSkipsScrape ==
    [][TickStep =>
         IF InQuietWindow(config, hour)
         THEN /\ pc' = "waiting"
              /\ UNCHANGED <<columns, rows, outbox, cycle, listings, new_listings>>
              /\ next_interval' = quiet_hours_interval(config, hour', minute')
         ELSE pc' = "scraping"]_vars

\* C12 witness: after a cycle that stored and notified, the tick at 22:10
\* was skipped and the scheduler waits for 595 minutes.
C12_Witness ==
    /\ pc = "waiting"
    /\ cycle = 1
    /\ rows # <<>>
    /\ outbox # <<>>
    /\ hour = 22
    /\ minute = 10
    /\ next_interval = 595 * SecondsPerMinute

\* The step in which run_scraper_with_scheduling returns an interval
ReturnsInterval == pc \in {"idle", "returned"} /\ pc' = "waiting"

\* The base and the jitter of the pair get_next_interval selects
SelectedBase(cfg, found) ==
    IF found THEN cfg.SCRAPE_INTERVAL_NEW_LISTINGS_MINUTES
             ELSE cfg.SCRAPE_INTERVAL_MINUTES

SelectedJitter(cfg, found) ==
    IF found THEN cfg.SCRAPE_INTERVAL_NEW_LISTINGS_RANDOM_MINUTES
             ELSE cfg.SCRAPE_INTERVAL_RANDOM_MINUTES

ZeroJitterStep ==
    /\ pc = "returned"
    /\ pc' = "waiting"
    /\ SelectedJitter(config, new_listings_count > 0) = 0

\* C14: with jitter 0, get_next_interval returns exactly the configured base
\* of the selected pair, for every configured base.
C14_ZeroJitterReturnsBase ==
    [][ZeroJitterStep =>
         next_interval' = SelectedBase(config, new_listings_count > 0)]_vars

\* C14, amended: with jitter 0, get_next_interval returns exactly the larger
\* of 1 minute and the configured base of the selected pair: the base when
\* it is 1 minute or more, 1 minute when it is less.
C14_ZeroJitterReturnsFlooredBase ==
    [][ZeroJitterStep =>
         LET base == SelectedBase(config, new_listings_count > 0)
         IN  /\ base >= 1 * SecondsPerMinute => next_interval' = base
             /\ base < 1 * SecondsPerMinute => next_interval' = 1 * SecondsPerMinute]_vars

\* C14 witness: both pairs have a base of 5 minutes and no jitter, and the
\* scheduler waits for 5 minutes after a cycle.
C14_Witness ==
    /\ pc = "waiting"
    /\ ~is_quiet_hours(config, hour)
    /\ config.SCRAPE_INTERVAL_MINUTES = 5 * SecondsPerMinute
    /\ config.SCRAPE_INTERVAL_NEW_LISTINGS_MINUTES = 5 * SecondsPerMinute
    /\ config.SCRAPE_INTERVAL_RANDOM_MINUTES = 0
    /\ config.SCRAPE_INTERVAL_NEW_LISTINGS_RANDOM_MINUTES = 0
    /\ next_interval = 5 * SecondsPerMinute

\* The intervals a (base, jitter) pair can give
PairRange(cfg, found) ==
    Max(1 * SecondsPerMinute, SelectedBase(cfg, found) - SelectedJitter(cfg, found))
    .. Max(1 * SecondsPerMinute, SelectedBase(cfg, found) + SelectedJitter(cfg, found))

\* C15: after a scrape cycle the next interval is drawn from the
\* new-listings pair iff save_listings returned at least one new listing in
\* that cycle, and from the normal pair otherwise, whatever the cycles
\* before it found.
C15_PairByLastOutcome ==
    [][(pc = "returned" /\ pc' = "waiting") =>
         /\ next_interval' \in PairRange(config, new_listings # <<>>)
         /\ next_interval' \notin PairRange(config, new_listings = <<>>)]_vars

\* C15 witness: the first cycle found new listings, the second found none,
\* and the scheduler waits for an interval of the normal pair.
C15_Witness ==
    /\ pc = "waiting"
    /\ ~is_quiet_hours(config, hour)
    /\ cycle = 2
    /\ \E n \in 1..Len(outbox) : outbox[n].cycle = 1
    /\ \A n \in 1..Len(outbox) : outbox[n].cycle = 1
    /\ ~raised
    /\ prev_listings # <<>>
    /\ next_interval \in PairRange(config, FALSE)

\* The step in which scrape_apartments catches an exception
ErrorStep == caught' # caught

\* C16: an exception raised in a step of a scrape cycle (the extraction or
\* the store write) does not end the scheduler: the cycle returns 0 new
\* listings and the interval after it is one of the normal pair.
C16_ErrorDoesNotStopScheduler ==
    [][/\ ErrorStep =>
            /\ pc' = "returned"
            /\ new_listings_count' = 0
       /\ (pc = "returned" /\ cycle \in caught /\ pc' = "waiting") =>
            /\ next_interval' \in PairRange(config, FALSE)
            /\ next_interval' \notin PairRange(config, TRUE)]_vars

\* C16 witness: save_listings raised in the first cycle, and the second
\* cycle has extracted its listings.
C16_Witness ==
    /\ cycle = 2
    /\ caught = {1}
    /\ raised
    /\ pc = "extracted"
    /\ listings # <<>>

\* C17: KeyboardInterrupt ends the scheduler between ticks only: a scrape
\* cycle that has begun, the first one at startup too, runs to its end
\* (ingest committed, every notification of the cycle dispatched) before the
\* scheduler stops.
C17_StopsOnlyBetweenTicks ==
    [][pc' = "stopped" => pc \in {"idle", "returned", "waiting", "paused"}]_vars

\* What a cycle dispatches for the list save_listings returned: the summary,
\* then one notification for each listing, in the order of the list
ExpectedDispatch(c, new) ==
    IF new = <<>> THEN <<>>
    ELSE <<[cycle |-> c, kind |-> "summary", listing |-> new[1]]>>
         \o [k \in 1..Len(new) |-> [cycle |-> c, kind |-> "listing", listing |-> new[k]]]

\* What the running cycle has dispatched
DispatchedInCycle == SelectSeq(outbox, LAMBDA e : e.cycle = cycle)

\* C18: a scrape cycle in which save_listings returned n new listings
\* dispatches one summary (when n > 0) and then exactly one notification for
\* each of the n listings, in the order save_listings returned them; with
\* n = 0 it dispatches nothing.
C18_OncePerNewListingInOrder ==
    /\ pc \in {"scraping", "extracted", "summary"} => DispatchedInCycle = <<>>
    /\ pc = "notify" =>
          DispatchedInCycle = SubSeq(ExpectedDispatch(cycle, new_listings), 1, idx)
    /\ pc = "returned" => DispatchedInCycle = ExpectedDispatch(cycle, new_listings)

\* C18 witness: save_listings returned two different listings and the
\* cycle has returned after the summary and two notifications.
C18_Witness ==
    /\ pc = "returned"
    /\ Len(new_listings) = 2
    /\ new_listings[1] # new_listings[2]
    /\ Len(DispatchedInCycle) = 3

\* The step in which send_notification is called for a listing
DispatchStep ==
    /\ Len(outbox') = Len(outbox) + 1
    /\ outbox'[Len(outbox')].kind = "listing"

\* C19: a dispatch that failed does not end the cycle, does not keep the
\* other new listings of the cycle from being dispatched, does not change the
\* count the cycle returns, and no later dispatch, in this cycle or in a
\* later one, is made for the identity it failed for.
C19_FailedDispatchNotRetried ==
    [][/\ DispatchStep =>
            /\ Identity(outbox'[Len(outbox')].listing) \notin failed
            /\ pc' = "notify"
            /\ idx' = idx + 1
       /\ (pc = "notify" /\ pc' = "returned") =>
            /\ new_listings_count' = Len(new_listings)
            /\ DispatchedInCycle = ExpectedDispatch(cycle, new_listings)]_vars

\* C20: the notified flag of a row is false when the row is inserted and
\* true once the cycle has dispatched the notification for its identity.
C20_NotifiedFlagTracksDispatch ==
    pc = "returned" =>
        \A i \in 1..Len(rows) :
            rows[i].notified =
                IF \E n \in 1..Len(outbox) :
                       /\ outbox[n].kind = "listing"
                       /\ Identity(outbox[n].listing) = Identity(rows[i])
                THEN 1 ELSE 0

\* The resume interval in minutes for a time h:m of the quiet window
ResumeMinutes(cfg, h, m) ==
    LET H == IF cfg.QUIET_HOURS_START > cfg.QUIET_HOURS_END /\ h >= cfg.QUIET_HOURS_START
             THEN (24 - h) + cfg.QUIET_HOURS_END
             ELSE cfg.QUIET_HOURS_END - h
    IN  Max(1, (H * 60) - m + 5)

\* C21: a tick skipped at a time h:m of the quiet window returns
\* max(1, H*60 - m + 5) minutes, with H = (24 - h) + end hour before midnight
\* in a window that spans midnight and H = end hour - h otherwise; for the
\* window from 21 to 8 at 22:10 that is 595 minutes.
C21_ResumeInterval ==
    [][(pc = "idle" /\ pc' = "waiting" /\ InQuietWindow(config, hour')) =>
         /\ next_interval' = ResumeMinutes(config, hour', minute') * SecondsPerMinute
         /\ (/\ config.QUIET_HOURS_START = 21
             /\ config.QUIET_HOURS_END = 8
             /\ hour' = 22
             /\ minute' = 10) => next_interval' = 595 * SecondsPerMinute]_vars

\* C21 witness: under the window from 21 to 8 the first tick, at 22:10, was
\* skipped with an interval of 595 minutes.
C21_Witness ==
    /\ pc = "waiting"
    /\ cycle = 0
    /\ config.QUIET_HOURS_ENABLED
    /\ config.QUIET_HOURS_START = 21
    /\ config.QUIET_HOURS_END = 8
    /\ hour = 22
    /\ minute = 10
    /\ next_interval = 595 * SecondsPerMinute

\* C22: when quiet hours begin during a wait the next one-minute check
\* finds them; the scheduler then checks once a minute and starts no scrape
\* while they last; when they are over the whole minutes left of the wait
\* are not slept: less than a minute of it is left, and the next tick is
\* taken within that.
C22_PauseDropsStaleInterval ==
    [][/\ pc \in {"waiting", "paused"} => pc' \in {"waiting", "paused", "idle"}
       /\ (pc = "waiting" /\ next_interval >= 60) =>
            /\ <<hour', minute'>> = MinuteAfter(hour, minute)
            /\ pc' = IF InQuietWindow(config, hour') THEN "paused" ELSE "waiting"
       /\ pc = "paused" =>
            /\ next_interval < 60
            /\ next_interval' = next_interval
            /\ <<hour', minute'>> = MinuteAfter(hour, minute)
            /\ pc' = IF InQuietWindow(config, hour') THEN "paused" ELSE "waiting"
       /\ (pc = "waiting" /\ next_interval < 60) =>
            /\ pc' = "idle"
            /\ <<hour', minute'>> \in {<<hour, minute>>, MinuteAfter(hour, minute)}]_vars

\* C22 witness: under the window from 21 to 8 a wait with half a minute over
\* whole minutes was paused in the evening and the pause has ended at 8:00
\* with that half minute left.
C22_Witness ==
    /\ pc = "waiting"
    /\ config.QUIET_HOURS_ENABLED
    /\ config.QUIET_HOURS_START = 21
    /\ config.QUIET_HOURS_END = 8
    /\ hour = 8
    /\ minute = 0
    /\ 2 * next_interval = SecondsPerMinute

\* The rows a call of save_listings wrote to before it failed: the
\* transaction as it stood at the failing statement
OpenTransaction(cols, rs, ls, now) ==
    SaveLoop(cols, [rows |-> rs, new |-> <<>>, raised |-> FALSE],
             get_seen_listing_urls(rs), ls, now).rows

\* C23: a call of save_listings in which a statement fails persists none of
\* its inserts and none of its last_seen updates: the store is what it was
\* before the call; a call in which no statement fails persists all of them.
C23_IngestAllOrNothing ==
    [][cycle' = cycle + 1 =>
         /\ raised' => rows' = rows
         /\ ~raised' => rows' = OpenTransaction(columns, rows, listings', clock')]_vars

\* C23 witness: a call failed at its third statement after a last_seen
\* update and an insert, and the store holds neither.
C23_Witness ==
    /\ raised
    /\ Len(listings) = MaxIngestBatch
    /\ Identity(listings[1]) \in get_seen_listing_urls(rows)
    /\ Identity(listings[2]) \notin StoredIdentities(rows)
    /\ OpenTransaction(columns, rows, listings, clock) # rows
    /\ Len(OpenTransaction(columns, rows, listings, clock)) = Len(rows) + 1
    /\ \A i \in 1..Len(rows) : rows[i].last_seen < clock

\* The first i listings of a batch
BatchPrefix(ls, i) == SubSeq(ls, 1, i)

\* The transaction of save_listings after the first i listings of the batch
TransactionAfter(cols, rs, ls, i, now) ==
    SaveLoop(cols, [rows |-> rs, new |-> <<>>, raised |-> FALSE],
             get_seen_listing_urls(rs), BatchPrefix(ls, i), now)

\* The batch holds at positions i < j the same URL, which the store lacks
DuplicateNewUrl(rs, ls, i, j) ==
    /\ i < j
    /\ ls[i].url # None
    /\ ls[i].url = ls[j].url
    /\ ls[i].url \notin get_seen_listing_urls(rs)

\* C24: a batch with the same not-yet-stored URL at two positions: both are
\* taken as new against the identities read at the start, the first is
\* inserted in the transaction, the insert of the second fails on the UNIQUE
\* url, ingest raises, the store is unchanged, and the cycle returns 0 with
\* nothing dispatched.
C24_DuplicateNewUrlFailsCycle ==
    [][\A i, j \in 1..Len(listings) :
         (IngestStep /\ DuplicateNewUrl(rows, listings, i, j)) =>
            /\ Identity(listings[i]) \notin get_seen_listing_urls(rows)
            /\ Identity(listings[j]) \notin get_seen_listing_urls(rows)
            /\ LET before == TransactionAfter(columns, rows, listings, j - 1, clock)
               IN  /\ ~before.raised
                   /\ \E k \in 1..Len(before.new) : before.new[k] = listings[i]
                   /\ InsertFails(columns, before.rows, listings[j])
            /\ raised'
            /\ rows' = rows
            /\ new_listings' = <<>>
            /\ pc' = "returned"
            /\ new_listings_count' = 0
            /\ outbox' = outbox
            /\ DispatchedInCycle = <<>>]_vars

\* C24 witness: the cycle has returned 0 after a batch with one new URL
\* twice; the store lacks the URL and nothing was dispatched in the cycle.
C24_Witness ==
    /\ pc = "returned"
    /\ raised
    /\ new_listings_count = 0
    /\ Len(listings) = 2
    /\ DuplicateNewUrl(rows, listings, 1, 2)
    /\ DispatchedInCycle = <<>>

\* The row the INSERT of save_listings writes for a listing at time now
StoredAs(row, listing, now) ==
    /\ \A c \in InsertColumns \ {"first_seen", "last_seen"} : row[c] = listing[c]
    /\ row.first_seen = now
    /\ row.last_seen = now

\* The store holds the row of the listing inserted in the current cycle
InStore(listing) == \E i \in 1..Len(rows) : StoredAs(rows[i], listing, clock)

\* C25: whenever a notification is dispatched, the summary or a listing's
\* own, every new record of the cycle is already committed to the store, the
\* record the notification is about among them; dispatching writes no row.
C25_PersistBeforeNotify ==
    [][outbox' # outbox =>
         /\ \A k \in 1..Len(new_listings) : InStore(new_listings[k])
         /\ InStore(outbox'[Len(outbox')].listing)
         /\ rows' = rows]_vars

\* C25 witness: a cycle with two new records has dispatched the summary and
\* the first listing; both records are in the store.
C25_Witness ==
    /\ pc = "notify"
    /\ Len(new_listings) = 2
    /\ Len(DispatchedInCycle) = 2
    /\ \A k \in 1..Len(new_listings) : InStore(new_listings[k])

\* C26: with no stop signal and time advancing a scrape is executed again
\* and again; every wait, the pause for quiet hours included, ends with a
\* tick; after a tick skipped for quiet hours a later tick scrapes.
C26_ScrapesInfinitelyOften ==
    /\ []<>(pc = "returned")
    /\ (pc \in {"waiting", "paused"}) ~> (pc = "idle")
    /\ (pc = "idle" /\ is_quiet_hours(config, hour)) ~> (pc = "returned")

\* C26 witness: under the window from 21 to 8 a scrape has been executed in
\* the first minutes after the window's end and its result is about to be
\* turned into the next interval.
C26_Witness ==
    /\ pc = "returned"
    /\ config.QUIET_HOURS_ENABLED
    /\ config.QUIET_HOURS_START = 21
    /\ config.QUIET_HOURS_END = 8
    /\ hour = config.QUIET_HOURS_END
    /\ minute = 1

\* The hours of a day
Hours == 0..(HoursPerDay - 1)

\* C27: whatever start and end hour in 0..23 are configured, some hour of
\* the day is not quiet, and with start equal to end no hour is quiet.
C27_WindowNeverWholeDay ==
    /\ config.QUIET_HOURS_START \in Hours
    /\ config.QUIET_HOURS_END \in Hours
    /\ \E h \in Hours : ~is_quiet_hours(config, h)
    /\ config.QUIET_HOURS_START = config.QUIET_HOURS_END =>
          \A h \in Hours : ~is_quiet_hours(config, h)

\* C27 witness: quiet hours are enabled with start equal to end, and the
\* tick at that hour has scraped.
C27_Witness ==
    /\ config.QUIET_HOURS_ENABLED
    /\ config.QUIET_HOURS_START = config.QUIET_HOURS_END
    /\ hour = config.QUIET_HOURS_START
    /\ pc = "returned"

\* The wall clock r minutes after h:m
ClockAfter(h, m, r) ==
    LET t == (h * 60) + m + r
    IN  <<(t \div 60) % 24, t % 60>>

\* C28: a tick skipped at a quiet time h:m returns an interval of R whole
\* minutes with R >= 6, so the floor of 1 minute is not what is returned, and
\* R minutes after h:m the clock reads end_hour:05, an hour that is not quiet.
C28_ResumePointsPastWindow ==
    [][(pc = "idle" /\ pc' = "waiting" /\ InQuietWindow(config, hour')) =>
         LET R == next_interval' \div 60
         IN  /\ next_interval' = R * 60
             /\ R >= 6
             /\ ClockAfter(hour', minute', R) = <<config.QUIET_HOURS_END, 5>>
             /\ ~InQuietWindow(config, config.QUIET_HOURS_END)
             /\ ~is_quiet_hours(config, ClockAfter(hour', minute', R)[1])]_vars

\* C28 witness: under the window from 21 to 8 the tick at 7:59 was skipped
\* with the smallest interval there is, 6 minutes.
C28_Witness ==
    /\ pc = "waiting"
    /\ config.QUIET_HOURS_ENABLED
    /\ config.QUIET_HOURS_START = 21
    /\ config.QUIET_HOURS_END = 8
    /\ hour = 7
    /\ minute = 59
    /\ next_interval = 6 * SecondsPerMinute

\* A cycle ends without listings: the page gave none, or the search could
\* not be set up
NoListingsStep ==
    \/ pc = "extracted" /\ listings = <<>> /\ pc' = "returned"
    \/ pc = "scraping" /\ pc' = "returned" /\ caught' = caught

\* C29: a cycle that obtains no listings does not call save_listings: no row
\* is inserted, no last_seen is written, no notification is dispatched, and
\* the cycle returns 0.
C29_NoListingsLeavesStore ==
    [][NoListingsStep =>
         /\ rows' = rows
         /\ columns' = columns
         /\ raised' = raised
         /\ prev_listings' = prev_listings
         /\ new_listings' = <<>>
         /\ outbox' = outbox
         /\ DispatchedInCycle = <<>>
         /\ new_listings_count' = 0]_vars

\* C29 witness: the second cycle has returned 0 without listings and without
\* an exception; the rows of the first cycle have the last_seen it gave them.
C29_Witness ==
    /\ pc = "returned"
    /\ listings = <<>>
    /\ cycle \notin caught
    /\ new_listings_count = 0
    /\ rows # <<>>
    /\ \E i \in 1..Len(rows) : rows[i].first_seen = clock - 1
    /\ \A i \in 1..Len(rows) : rows[i].last_seen < clock

\* Every row was first seen no later than it was last seen
SeenInOrder == \A i \in 1..Len(rows) : rows[i].first_seen <= rows[i].last_seen

\* C30: in every state of the store first_seen <= last_seen holds for every
\* row; a row a step inserts has first_seen = last_seen, the time of the
\* call; no step lowers the last_seen of a row.  The clock never goes back.
C30_SeenTimesOrdered ==
    /\ []SeenInOrder
    /\ [][/\ clock' >= clock
          /\ Len(rows') >= Len(rows)
          /\ \A i \in 1..Len(rows) : rows'[i].last_seen >= rows[i].last_seen
          /\ \A i \in (Len(rows) + 1)..Len(rows') :
                /\ rows'[i].first_seen = rows'[i].last_seen
                /\ rows'[i].first_seen = clock]_vars

\* C30 witness: the second ingest has inserted one row and updated the
\* last_seen of a row of the first.
C30_Witness ==
    /\ pc = "summary"
    /\ \E i, j \in 1..Len(rows) :
           /\ rows[i].first_seen < rows[i].last_seen
           /\ rows[i].first_seen = clock - 1
           /\ rows[i].last_seen = clock
           /\ rows[j].first_seen = clock
           /\ rows[j].last_seen = clock

====
